---- MODULE Spec2Model ----
(***************************************************************************)
(* The registration route of src/routes/auth/register.ts: the chain of     *)
(* middleware functions registered by registerRouter.post('/register'),    *)
(* the two INSERT statements it sends to the pool and the promise          *)
(* callbacks that answer the request.                                      *)
(*                                                                         *)
(* A JavaScript string is a sequence of one-character strings; the value   *)
(* undefined (a field that is absent from request.body) is the token       *)
(* `undefined`, which is no such sequence.                                 *)
(***************************************************************************)
EXTENDS Integers, Sequences, FiniteSets, TLC

(***************************************************************************)
(* Bounds of the model.                                                    *)
(***************************************************************************)
\* number of requests the server receives in one behaviour
NumRequests == 2

(***************************************************************************)
(* JavaScript values.                                                      *)
(***************************************************************************)
undefined == << "undefined" >>

Rep(c, n) == [i \in 1..n |-> c]

DigitChars == << "0", "1", "2", "3", "4", "5", "6", "7", "8", "9" >>
UpperChars == << "A", "B", "C", "D", "E", "F", "G", "H", "I", "J", "K", "L", "M",
                 "N", "O", "P", "Q", "R", "S", "T", "U", "V", "W", "X", "Y", "Z" >>
LowerChars == << "a", "b", "c", "d", "e", "f", "g", "h", "i", "j", "k", "l", "m",
                 "n", "o", "p", "q", "r", "s", "t", "u", "v", "w", "x", "y", "z" >>

Range(s) == { s[i] : i \in DOMAIN s }
Digits == Range(DigitChars)
Letters == Range(UpperChars) \cup Range(LowerChars)
IndexOf(c, s) == CHOOSE i \in DOMAIN s : s[i] = c

\* \s of a JavaScript regular expression (the characters the model uses)
WhiteSpace == { " ", "\t", "\n", "\r" }
\* what the regular expression's . does not match
LineTerminators == { "\n", "\r" }

\* a JavaScript number: an integer, or NaN
Num(v) == [nan |-> FALSE, val |-> v]
NaN == [nan |-> TRUE, val |-> 0]
isNaN(x) == x.nan

\* the value of one decimal digit
DigitValue(c) == IndexOf(c, DigitChars) - 1

\* parseInt(char) of one character
parseIntChar(c) == IF c \in Digits THEN Num(DigitValue(c)) ELSE NaN

\* the index after the run of digits that starts at i
RECURSIVE DigitsEnd(_, _)
DigitsEnd(s, i) ==
    IF i <= Len(s) /\ s[i] \in Digits THEN DigitsEnd(s, i + 1) ELSE i

\* the index of the first character at or after i that is no white space
RECURSIVE SkipSpace(_, _)
SkipSpace(s, i) ==
    IF i <= Len(s) /\ s[i] \in WhiteSpace THEN SkipSpace(s, i + 1) ELSE i

\* the value of the decimal digits s[i..j-1]
RECURSIVE DigitsValue(_, _, _)
DigitsValue(s, i, j) ==
    IF j <= i THEN 0
    ELSE 10 * DigitsValue(s, i, j - 1) + DigitValue(s[j - 1])

\* parseInt(string): leading white space, an optional sign, then the longest
\* run of decimal digits; whatever follows is ignored; NaN without a digit.
\* parseInt(undefined) is parseInt("undefined"), which is NaN.
parseInt(s) ==
    IF s = undefined THEN NaN
    ELSE LET a == SkipSpace(s, 1)
             signed == a <= Len(s) /\ s[a] \in { "+", "-" }
             b == IF signed THEN a + 1 ELSE a
             e == DigitsEnd(s, b)
             v == DigitsValue(s, b, e)
         IN  IF e = b THEN NaN
             ELSE IF signed /\ s[a] = "-" THEN Num(0 - v) ELSE Num(v)

\* String.prototype.toLowerCase
toLowerCase(s) ==
    [i \in DOMAIN s |->
        IF s[i] \in Range(UpperChars) THEN LowerChars[IndexOf(s[i], UpperChars)]
        ELSE s[i]]

(***************************************************************************)
(* validationFunctions of core/utilities.                                  *)
(***************************************************************************)
\* isStringProvided: a string, and not the empty one
isStringProvided(candidate) == candidate # undefined /\ Len(candidate) > 0

\* candidate without its white space
RECURSIVE StripSpace(_)
StripSpace(s) ==
    IF s = << >> THEN << >>
    ELSE IF Head(s) \in WhiteSpace THEN StripSpace(Tail(s))
    ELSE << Head(s) >> \o StripSpace(Tail(s))

\* Number(s) is not NaN: an optional sign, decimal digits, an optional
\* fraction, and nothing else
IsNumeric(s) ==
    LET signed == Len(s) >= 1 /\ s[1] \in { "+", "-" }
        b == IF signed THEN 2 ELSE 1
        e == DigitsEnd(s, b)
        f == IF e <= Len(s) /\ s[e] = "." THEN DigitsEnd(s, e + 1) ELSE e
    IN  /\ f = Len(s) + 1
        /\ (e > b \/ f > e + 1)

\* isNumberProvided of a string (or of undefined)
isNumberProvided(candidate) ==
    /\ candidate # undefined
    /\ candidate # << >>
    /\ IsNumeric(StripSpace(candidate))

\* isNumberProvided of a number: every number, NaN too, is a number
isNumberProvidedOfNumber(n) == TRUE

(***************************************************************************)
(* The validators of register.ts.                                          *)
(***************************************************************************)
\* the character class of testSpecial
SpecialChars == { "!", "@", "#", "$", "%", "^", "&", "*", "(", ")", "_", "+",
                  "-", "=", "[", "]", "{", "}", ";", "'", ":", "\"", "\\", "|",
                  ",", ".", "<", ">", "/", "?" }

\* testSpecial.test(char): ^[...]*$ on a string of one character
testSpecial(char) == char \in SpecialChars

MinPasswordLength == 15
RequiredDigitSum == 20
MinPhoneLength == 10
MinRole == 1
MaxRole == 5

\* the loop of isValidPassword over password[i..]: <<sum, isNum, hasSpecialChar>>
RECURSIVE PasswordScan(_, _, _)
PasswordScan(password, i, acc) ==
    IF i > Len(password) THEN acc
    ELSE LET char == password[i]
         IN  IF isNumberProvidedOfNumber(parseIntChar(char)) /\ ~isNaN(parseIntChar(char))
             THEN PasswordScan(password, i + 1,
                      [acc EXCEPT !.sum = parseIntChar(char).val + acc.sum,
                                  !.isNum = TRUE])
             ELSE IF testSpecial(char)
             THEN PasswordScan(password, i + 1, [acc EXCEPT !.hasSpecialChar = TRUE])
             ELSE PasswordScan(password, i + 1, acc)

\* password.length of undefined raises a TypeError
isValidPasswordThrows(password) == password = undefined

\* isValidPassword that asks for a digit sum of at least the required one
isValidPasswordAtLeast(password) ==
    IF Len(password) < MinPasswordLength THEN FALSE
    ELSE LET r == PasswordScan(password, 1,
                      [sum |-> 0, isNum |-> FALSE, hasSpecialChar |-> FALSE])
         IN  r.isNum /\ r.hasSpecialChar /\ r.sum >= RequiredDigitSum

isValidPassword(password) ==
    IF Len(password) < MinPasswordLength THEN FALSE
    ELSE LET r == PasswordScan(password, 1,
                      [sum |-> 0, isNum |-> FALSE, hasSpecialChar |-> FALSE])
         IN  r.isNum /\ r.hasSpecialChar /\ r.sum = RequiredDigitSum

isValidPhone(phone) == isStringProvided(phone) /\ Len(phone) >= MinPhoneLength

isValidRole(priority) ==
    /\ isNumberProvided(priority)
    /\ ~isNaN(parseInt(priority))
    /\ parseInt(priority).val >= MinRole
    /\ parseInt(priority).val <= MaxRole

\* [^<>()[\]\\.,;:\s@"]
IsAtomChar(c) ==
    c \notin ({ "<", ">", "(", ")", "[", "]", "\\", ".", ",", ";", ":", "@", "\"" }
                \cup WhiteSpace)

\* [^<>()[\]\\.,;:\s@"]+(\.[^<>()[\]\\.,;:\s@"]+)*
MatchesDottedAtoms(s) ==
    /\ Len(s) > 0
    /\ \A i \in DOMAIN s : s[i] = "." \/ IsAtomChar(s[i])
    /\ s[1] # "." /\ s[Len(s)] # "."
    /\ \A i \in 1..(Len(s) - 1) : ~(s[i] = "." /\ s[i + 1] = ".")

\* .(".+")
MatchesQuoted(s) ==
    /\ Len(s) >= 4
    /\ s[2] = "\"" /\ s[Len(s)] = "\""
    /\ \A i \in (DOMAIN s) \ { 2, Len(s) } : s[i] \notin LineTerminators

\* \[[0-9]{1,3}\.[0-9]{1,3}\.[0-9]{1,3}\.[0-9]{1,3}\]
MatchesAddressLiteral(s) ==
    /\ Len(s) >= 9
    /\ s[1] = "[" /\ s[Len(s)] = "]"
    /\ \A i \in 2..(Len(s) - 1) : s[i] = "." \/ s[i] \in Digits
    /\ s[2] # "." /\ s[Len(s) - 1] # "."
    /\ \A i \in 2..(Len(s) - 2) : ~(s[i] = "." /\ s[i + 1] = ".")
    /\ Cardinality({ i \in 2..(Len(s) - 1) : s[i] = "." }) = 3
    /\ \A i \in 2..(Len(s) - 4) : \E j \in i..(i + 3) : s[j] = "."

\* ([a-zA-Z\-0-9]+\.)+[a-zA-Z]{2,}
MatchesHostName(s) ==
    /\ Len(s) > 0
    /\ \A i \in DOMAIN s : s[i] \in Letters \cup Digits \cup { "-", "." }
    /\ s[1] # "." /\ s[Len(s)] # "."
    /\ \A i \in 1..(Len(s) - 1) : ~(s[i] = "." /\ s[i + 1] = ".")
    /\ \E d \in DOMAIN s :
          /\ s[d] = "."
          /\ Len(s) - d >= 2
          /\ \A i \in (d + 1)..Len(s) : s[i] \in Letters

\* the regular expression of isValidEmail: ^(local)@(domain)$
MatchesEmailPattern(s) ==
    \E at \in DOMAIN s :
        /\ s[at] = "@"
        /\ LET local == SubSeq(s, 1, at - 1)
               domain == SubSeq(s, at + 1, Len(s))
           IN  /\ MatchesDottedAtoms(local) \/ MatchesQuoted(local)
               /\ MatchesAddressLiteral(domain) \/ MatchesHostName(domain)

\* email.toLowerCase of undefined raises a TypeError
isValidEmailThrows(email) == email = undefined

\* the match is an array (truthy) or null (falsy)
isValidEmail(email) == MatchesEmailPattern(toLowerCase(email))

(***************************************************************************)
(* credentialingFunctions of core/utilities and jwt.sign.                  *)
(***************************************************************************)
\* the values generateSalt(32) may return
Salts == { << "s", "1" >>, << "s", "2" >> }

\* a deterministic one-way function of the password and the salt
generateHash(password, salt) == << "hash", password, salt >>

\* jwt.sign refuses a secret that is undefined or empty
\* verification of a password against a stored salt and hash
verify(password, salt, saltedHash) == generateHash(password, salt) = saltedHash

jwtSignThrows(secretOrPrivateKey) ==
    secretOrPrivateKey = undefined \/ secretOrPrivateKey = << >>

\* the signed token, a string: its payload and the key that signed it
jwtSign(payload, secretOrPrivateKey) == << "jwt", payload, secretOrPrivateKey >>

(***************************************************************************)
(* The requests the clients send.                                          *)
(***************************************************************************)
Str_ann == << "a", "n", "n" >>
Str_bob == << "b", "o", "b" >>
Str_email1 == << "a", "@", "b", ".", "c", "o" >>
Str_email2 == << "C", "@", "d", ".", "i", "o" >>
Str_noAt == << "a", ".", "b", ".", "c", "o" >>
Str_phone == Rep("5", MinPhoneLength)
Str_shortPhone == << "5", "5", "5" >>
Str_password == << "9", "9", "2", "!" >> \o Rep("a", MinPasswordLength - 4)
Str_password2 == << "2", "#", "9", "9" >> \o Rep("B", MinPasswordLength - 4)
Str_sum21 == << "9", "9", "3", "!" >> \o Rep("a", MinPasswordLength - 4)
Str_role3 == << "3" >>
Str_role5 == << "5" >>
Str_role0 == << "0" >>
Str_role3_5 == << "3", ".", "5" >>
Str_secret == << "k", "e", "y" >>

BodyFields == { "email", "firstname", "lastname", "username", "phone", "password", "role" }

\* a request whose every field passes its validator
GoodBody(username, email) ==
    [email |-> email, firstname |-> << "A", "l" >>, lastname |-> << "L", "i" >>,
     username |-> username, phone |-> Str_phone, password |-> Str_password,
     role |-> Str_role3]

GoodBodies ==
    { GoodBody(Str_ann, Str_email1),
      [GoodBody(Str_ann, Str_email2) EXCEPT !.password = Str_password2],
      [GoodBody(Str_bob, Str_email1) EXCEPT !.role = Str_role5] }

\* the values of each field that its validator does not accept
BadValues ==
    [email |-> { undefined, Str_noAt },
     firstname |-> { undefined },
     lastname |-> { << >> },
     username |-> { undefined },
     phone |-> { undefined, Str_shortPhone },
     password |-> { undefined, Str_sum21 },
     role |-> { undefined, Str_role0, Str_role3_5 }]

\* one field of a good request replaced
OneBad == { [GoodBody(Str_ann, Str_email1) EXCEPT ![f] = v] :
              <<f, v>> \in UNION { { <<g, w>> : w \in BadValues[g] } : g \in BodyFields } }

\* a second field replaced in a request whose email or phone is already bad
TwoBad ==
    { [b EXCEPT !.password = v] :
        <<b, v>> \in { c \in OneBad : c.email # Str_email1 \/ c.phone = Str_shortPhone }
                       \X BadValues.password }
    \cup { [b EXCEPT !.role = Str_role0] : b \in { c \in OneBad : c.email = Str_noAt } }

Bodies == GoodBodies \cup OneBad \cup TwoBad

(***************************************************************************)
(* The responses of the route.                                             *)
(***************************************************************************)
InvalidEmail == "Invalid or missing email  - please refer to documentation"
MissingFields == "Missing required information"
InvalidPhone == "Invalid or missing phone number - please refer to documentation"
InvalidPassword == "Invalid or missing password - please refer to documentation"
InvalidRole == "Invalid or missing role - please refer to documentation"
UsernameTaken == "Username exists"
EmailTaken == "Email exists"
InternalError == "server error - contact support"

\* response.status(status).send({message})
Message(status, message) == [status |-> status, message |-> message]

\* Created with status 200
CreatedAs200(accessToken, id) == [status |-> 200, accessToken |-> accessToken, id |-> id]

\* response.status(201).send({accessToken, id})
Created(accessToken, id) == [status |-> 201, accessToken |-> accessToken, id |-> id]

\* an exception that leaves a middleware function reaches the error handler
\* of the framework, which answers 500 with the error itself
Uncaught(error) == [status |-> 500, error |-> error]

TypeError == "TypeError"

(***************************************************************************)
(* The state.  One action is one turn of the event loop: a middleware      *)
(* function runs together with the middleware functions that its next()    *)
(* calls, up to the response or up to the query handed to the pool.        *)
(***************************************************************************)
Requests == 1..NumRequests

VARIABLES
    secret,              \* key.secret, read from the environment at load time
    request,             \* per request: pc, body, id and the locals of the middleware,
                         \*   the responses sent and the stages that ran, in order
    accountResult,       \* per request: how the promise of the Account INSERT settled
    credentialResult,    \* per request: how the promise of the Credential INSERT settled
    thrown,              \* per request: the error jwt.sign raised in the .then callback
    seen,                \* per request: what the Account INSERT met in the table,
                         \* and whether the request arrived after one with its
                         \* username had ended at a failed Credential INSERT
    Account,             \* the rows of table Account
    Account_Credential,  \* the rows of table Account_Credential
    account_id_seq       \* the next value of the serial column account_id

vars == << secret, request, accountResult, credentialResult, thrown, seen,
           Account, Account_Credential, account_id_seq >>

NoBody == [f \in BodyFields |-> undefined]
Pending == [settled |-> FALSE]
NoConstraint == "none"
NoError == "none"

Idle ==
    [pc |-> "idle", body |-> NoBody, id |-> 0, salt |-> << >>, saltedHash |-> << >>,
     sent |-> << >>, ran |-> << >>]

\* Chain with the password check registered before the phone check
ChainPasswordBeforePhone ==
    << "emailMiddlewareCheck", "requiredFields", "password", "phone", "role",
       "accountInsert", "credentialInsert" >>

\* the middleware functions of registerRouter.post('/register'), in the order
\* of their registration
Chain == << "emailMiddlewareCheck", "requiredFields", "phone", "password", "role",
            "accountInsert", "credentialInsert" >>

\* the middleware registered after `stage`
Following(stage) == Chain[IndexOf(stage, Chain) + 1]

Init ==
    /\ secret \in { undefined, Str_secret }
    /\ request = [r \in Requests |-> Idle]
    /\ accountResult = [r \in Requests |-> Pending]
    /\ credentialResult = [r \in Requests |-> Pending]
    /\ thrown = [r \in Requests |-> NoError]
    /\ seen = [r \in Requests |-> [username |-> FALSE, email |-> FALSE, afterOrphan |-> FALSE]]
    /\ Account = << >>
    /\ Account_Credential = << >>
    /\ account_id_seq = 1

(***************************************************************************)
(* The middleware functions.  Each maps the request it is given to the     *)
(* request it leaves behind; `salt` is the value generateSalt returns      *)
(* should the last middleware run in this turn.                            *)
(***************************************************************************)
\* response.status(..).send(..): the request is answered and the chain ends
Send(q, response) == [q EXCEPT !.sent = Append(@, response), !.pc = "done"]

\* the router calls the middleware q.pc names
RECURSIVE Handle(_, _)

\* next()
CallNext(q, salt) == Handle([q EXCEPT !.pc = Following(q.pc)], salt)

emailMiddlewareCheck(q, salt) ==
    IF isValidEmailThrows(q.body.email) THEN Send(q, Uncaught(TypeError))
    ELSE IF isValidEmail(q.body.email) THEN CallNext(q, salt)
    ELSE Send(q, Message(400, InvalidEmail))

RequiredFieldsCheck(q, salt) ==
    IF /\ isStringProvided(q.body.firstname)
       /\ isStringProvided(q.body.lastname)
       /\ isStringProvided(q.body.username)
    THEN CallNext(q, salt)
    ELSE Send(q, Message(400, MissingFields))

PhoneCheck(q, salt) ==
    IF isValidPhone(q.body.phone) THEN CallNext(q, salt)
    ELSE Send(q, Message(400, InvalidPhone))

PasswordCheck(q, salt) ==
    IF isValidPasswordThrows(q.body.password) THEN Send(q, Uncaught(TypeError))
    ELSE IF isValidPassword(q.body.password) THEN CallNext(q, salt)
    ELSE Send(q, Message(400, InvalidPassword))

\* RoleCheck that answers 400 and goes on to next()
RoleCheckFallsThrough(q, salt) ==
    IF isValidRole(q.body.role) THEN CallNext(q, salt)
    ELSE CallNext([q EXCEPT !.sent = Append(@, Message(400, InvalidRole))], salt)

RoleCheck(q, salt) ==
    IF isValidRole(q.body.role) THEN CallNext(q, salt)
    ELSE Send(q, Message(400, InvalidRole))

\* the values of the Account INSERT
AccountValues(b) ==
    [firstname |-> b.firstname, lastname |-> b.lastname, username |-> b.username,
     email |-> b.email, phone |-> b.phone, account_role |-> b.role]

\* the middleware that hands the Account INSERT to the pool
AccountInsert(q, salt) == [q EXCEPT !.pc = "accountQuery"]

\* the values of the Account_Credential INSERT
\* CredentialValues with salt and hash in each other's place
CredentialValuesExchanged(q) ==
    [account_id |-> q.id, salted_hash |-> q.salt, salt |-> q.saltedHash]

CredentialValues(q) ==
    [account_id |-> q.id, salted_hash |-> q.saltedHash, salt |-> q.salt]

\* the middleware that derives salt and hash and hands the Credential INSERT
\* to the pool
CredentialInsert(q, salt) ==
    [q EXCEPT !.salt = salt,
              !.saltedHash = generateHash(q.body.password, salt),
              !.pc = "credentialQuery"]

Handle(q, salt) ==
    LET e == [q EXCEPT !.ran = Append(@, q.pc)]
    IN  CASE q.pc = "emailMiddlewareCheck" -> emailMiddlewareCheck(e, salt)
          [] q.pc = "requiredFields" -> RequiredFieldsCheck(e, salt)
          [] q.pc = "phone" -> PhoneCheck(e, salt)
          [] q.pc = "password" -> PasswordCheck(e, salt)
          [] q.pc = "role" -> RoleCheck(e, salt)
          [] q.pc = "accountInsert" -> AccountInsert(e, salt)
          [] q.pc = "credentialInsert" -> CredentialInsert(e, salt)

\* the requests as the chain leaves them in the turn in which they arrive
Arrivals ==
    { Handle([Idle EXCEPT !.body = b, !.pc = Chain[1]], salt) : b \in Bodies, salt \in Salts }

\* a client posts to /register and the router enters the chain; requests are
\* numbered as they arrive
Receive(r) ==
    /\ request[r].pc = "idle"
    /\ \A p \in 1..(r - 1) : request[p].pc # "idle"
    /\ \E q \in Arrivals :
          /\ request' = [request EXCEPT ![r] = q]
          /\ seen' = [seen EXCEPT ![r].afterOrphan =
                \E p \in Requests : /\ request[p].pc = "done"
                                     /\ request[p].body.username = q.body.username
                                     /\ accountResult[p].settled /\ accountResult[p].ok
                                     /\ credentialResult[p].settled
                                     /\ ~credentialResult[p].ok]
    /\ UNCHANGED << secret, accountResult, credentialResult, thrown,
                    Account, Account_Credential, account_id_seq >>

(***************************************************************************)
(* The password rule on its own: the first client posts a body that is     *)
(* valid but for its password, which is a few characters of letters,       *)
(* digits and special characters followed by letters up to a length around *)
(* the required one.                                                       *)
(***************************************************************************)
MaxTyped == 4

PasswordAlphabet == { "9", "2", "3", "0", "!", "a" }

Passwords ==
    { w \o Rep("a", n) :
        w \in UNION { [1..k -> PasswordAlphabet] : k \in 0..MaxTyped },
        n \in (MinPasswordLength - MaxTyped - 1)..(MinPasswordLength - MaxTyped + 1) }

SubmitPassword ==
    /\ \A r \in Requests : request[r].pc = "idle"
    /\ \E password \in Passwords, salt \in Salts :
          request' = [request EXCEPT ![1] =
              Handle([Idle EXCEPT !.body = [GoodBody(Str_ann, Str_email1)
                                               EXCEPT !.password = password],
                                  !.pc = Chain[1]], salt)]
    /\ UNCHANGED << secret, accountResult, credentialResult, thrown, seen,
                    Account, Account_Credential, account_id_seq >>

NextPassword == SubmitPassword

PasswordSpec == Init /\ [][NextPassword]_vars

(***************************************************************************)
(* The storage behind pool.query.                                          *)
(***************************************************************************)
Rows(table) == { table[i] : i \in DOMAIN table }

\* text that the integer column account_role accepts
IsIntegerLiteral(s) ==
    LET t == StripSpace(s)
        signed == Len(t) >= 1 /\ t[1] \in { "+", "-" }
        b == IF signed THEN 2 ELSE 1
    IN  DigitsEnd(t, b) = Len(t) + 1 /\ Len(t) >= b

\* how the Account INSERT of `values` may end: the row is inserted, a
\* uniqueness constraint is violated, or the statement fails otherwise
AccountOutcomes(values) ==
    LET usernameExists == \E row \in Rows(Account) : row.username = values.username
        emailExists == \E row \in Rows(Account) : row.email = values.email
    IN  (IF ~usernameExists /\ ~emailExists /\ IsIntegerLiteral(values.account_role)
         THEN { "inserted" } ELSE { })
        \cup (IF usernameExists THEN { "account_username_key" } ELSE { })
        \cup (IF emailExists THEN { "account_email_key" } ELSE { })
        \cup { NoConstraint }

\* pool.query settles the promise of the Account INSERT
AccountQuery(r) ==
    /\ request[r].pc = "accountQuery"
    /\ ~accountResult[r].settled
    /\ LET values == AccountValues(request[r].body)
       IN  /\ seen' = [seen EXCEPT ![r] =
                         [username |-> \E row \in Rows(Account) : row.username = values.username,
                          email |-> \E row \in Rows(Account) : row.email = values.email,
                          afterOrphan |-> @.afterOrphan]]
           /\ \E outcome \in AccountOutcomes(values) :
                 IF outcome = "inserted"
                 THEN /\ Account' = Append(Account,
                             [account_id |-> account_id_seq,
                              firstname |-> values.firstname,
                              lastname |-> values.lastname,
                              username |-> values.username,
                              email |-> values.email,
                              phone |-> values.phone,
                              account_role |-> parseInt(values.account_role).val])
                      /\ account_id_seq' = account_id_seq + 1
                      /\ accountResult' = [accountResult EXCEPT ![r] =
                             [settled |-> TRUE, ok |-> TRUE, account_id |-> account_id_seq]]
                 ELSE /\ accountResult' = [accountResult EXCEPT ![r] =
                             [settled |-> TRUE, ok |-> FALSE, constraint |-> outcome]]
                      /\ UNCHANGED << Account, account_id_seq >>
    /\ UNCHANGED << secret, request, credentialResult, thrown, Account_Credential >>

\* pool.query settles the promise of the Account_Credential INSERT
CredentialQuery(r) ==
    /\ request[r].pc = "credentialQuery"
    /\ ~credentialResult[r].settled
    /\ \/ /\ Account_Credential' = Append(Account_Credential, CredentialValues(request[r]))
          /\ credentialResult' = [credentialResult EXCEPT ![r] = [settled |-> TRUE, ok |-> TRUE]]
       \/ /\ credentialResult' = [credentialResult EXCEPT ![r] = [settled |-> TRUE, ok |-> FALSE]]
          /\ UNCHANGED Account_Credential
    /\ UNCHANGED << secret, request, accountResult, thrown, seen, Account, account_id_seq >>

(***************************************************************************)
(* The promise callbacks.                                                  *)
(***************************************************************************)
\* Stash that leaves request.id as it was
StashNothing(requests, r, account_id) == requests

\* Stash into a variable that the requests share
StashShared(requests, r, account_id) ==
    [p \in DOMAIN requests |-> [requests[p] EXCEPT !.id = account_id]]

\* request.id = result.rows[0].account_id
Stash(requests, r, account_id) == [requests EXCEPT ![r].id = account_id]

\* AccountInsertThen that answers 201 itself instead of calling next()
AccountInsertThenAnswers(r) ==
    /\ request[r].pc = "accountQuery"
    /\ accountResult[r].settled /\ accountResult[r].ok
    /\ ~jwtSignThrows(secret)
    /\ LET stashed == Stash(request, r, accountResult[r].account_id)
       IN  request' = [stashed EXCEPT ![r] =
               Send(@, Created(jwtSign([role |-> @.body.role, id |-> @.id], secret), @.id))]
    /\ UNCHANGED << secret, accountResult, credentialResult, thrown, seen,
                    Account, Account_Credential, account_id_seq >>

\* .then of the Account INSERT: stash the id and call next()
AccountInsertThen(r) ==
    /\ request[r].pc = "accountQuery"
    /\ accountResult[r].settled /\ accountResult[r].ok
    /\ \E salt \in Salts :
          LET stashed == Stash(request, r, accountResult[r].account_id)
          IN  request' = [stashed EXCEPT ![r] =
                  CallNext([stashed[r] EXCEPT !.pc = "accountInsert"], salt)]
    /\ UNCHANGED << secret, accountResult, credentialResult, thrown, seen,
                    Account, Account_Credential, account_id_seq >>

\* AccountError with the name of the username constraint misspelt
AccountErrorMisspelt(constraint) ==
    IF constraint = "account_user_key" THEN Message(400, UsernameTaken)
    ELSE IF constraint = "account_email_key" THEN Message(400, EmailTaken)
    ELSE Message(500, InternalError)

\* AccountError with the two constraints exchanged
AccountErrorExchanged(constraint) ==
    IF constraint = "account_email_key" THEN Message(400, UsernameTaken)
    ELSE IF constraint = "account_username_key" THEN Message(400, EmailTaken)
    ELSE Message(500, InternalError)

\* AccountError without the branches for the two constraints
AccountErrorAlways500(constraint) == Message(500, InternalError)

\* the response that .catch of the Account INSERT sends for error.constraint
AccountError(constraint) ==
    IF constraint = "account_username_key" THEN Message(400, UsernameTaken)
    ELSE IF constraint = "account_email_key" THEN Message(400, EmailTaken)
    ELSE Message(500, InternalError)

\* .catch of the Account INSERT
\* AccountInsertCatch that, for a stored username, takes the stored Account
\* for the one to register and calls next()
AccountInsertCatchAdopts(r) ==
    /\ request[r].pc = "accountQuery"
    /\ accountResult[r].settled /\ ~accountResult[r].ok
    /\ IF accountResult[r].constraint = "account_username_key"
       THEN \E salt \in Salts :
               LET stored == CHOOSE row \in Rows(Account) :
                                 row.username = request[r].body.username
               IN  request' = [request EXCEPT ![r] =
                       CallNext([@ EXCEPT !.id = stored.account_id,
                                          !.pc = "accountInsert"], salt)]
       ELSE request' = [request EXCEPT ![r] =
                Send(@, AccountError(accountResult[r].constraint))]
    /\ UNCHANGED << secret, accountResult, credentialResult, thrown, seen,
                    Account, Account_Credential, account_id_seq >>

AccountInsertCatch(r) ==
    /\ request[r].pc = "accountQuery"
    /\ accountResult[r].settled /\ ~accountResult[r].ok
    /\ request' = [request EXCEPT ![r] = Send(@, AccountError(accountResult[r].constraint))]
    /\ UNCHANGED << secret, accountResult, credentialResult, thrown, seen,
                    Account, Account_Credential, account_id_seq >>

\* .then of the Credential INSERT: sign the token and answer 201; an error
\* raised by jwt.sign rejects the promise that .catch handles
\* TokenPayload with a role that is not the submitted one
TokenPayloadFixedRole(q) == [role |-> Str_role3, id |-> q.id]

\* the claims that jwt.sign signs: the submitted role and the stashed id
TokenPayload(q) == [role |-> q.body.role, id |-> q.id]

\* CredentialInsertThen that swallows the exception of jwt.sign and answers
\* 201 with no token
CredentialInsertThenUnsigned(r) ==
    /\ request[r].pc = "credentialQuery"
    /\ credentialResult[r].settled /\ credentialResult[r].ok
    /\ thrown[r] = NoError
    /\ LET q == [request[r] EXCEPT !.ran = Append(@, "tokenIssue")]
       IN  IF jwtSignThrows(secret)
           THEN /\ thrown' = [thrown EXCEPT ![r] = "secretOrPrivateKey must have a value"]
                /\ request' = [request EXCEPT ![r] = Send(q, Created(undefined, q.id))]
           ELSE /\ request' = [request EXCEPT ![r] =
                      Send(q, Created(jwtSign(TokenPayload(q), secret), q.id))]
                /\ UNCHANGED thrown
    /\ UNCHANGED << secret, accountResult, credentialResult, seen,
                    Account, Account_Credential, account_id_seq >>

CredentialInsertThen(r) ==
    /\ request[r].pc = "credentialQuery"
    /\ credentialResult[r].settled /\ credentialResult[r].ok
    /\ thrown[r] = NoError
    /\ LET q == [request[r] EXCEPT !.ran = Append(@, "tokenIssue")]
       IN  IF jwtSignThrows(secret)
           THEN /\ thrown' = [thrown EXCEPT ![r] = "secretOrPrivateKey must have a value"]
                /\ request' = [request EXCEPT ![r] = q]
           ELSE /\ request' = [request EXCEPT ![r] =
                      Send(q, Created(jwtSign(TokenPayload(q), secret), q.id))]
                /\ UNCHANGED thrown
    /\ UNCHANGED << secret, accountResult, credentialResult, seen,
                    Account, Account_Credential, account_id_seq >>

\* CredentialInsertCatch that removes the Account row of the request
CredentialInsertCatchCompensating(r) ==
    /\ request[r].pc = "credentialQuery"
    /\ credentialResult[r].settled
    /\ ~credentialResult[r].ok \/ thrown[r] # NoError
    /\ request' = [request EXCEPT ![r] = Send(@, Message(500, InternalError))]
    /\ Account' = SelectSeq(Account, LAMBDA row : row.account_id # request[r].id)
    /\ UNCHANGED << secret, accountResult, credentialResult, thrown, seen,
                    Account_Credential, account_id_seq >>

\* .catch of the Credential INSERT
CredentialInsertCatch(r) ==
    /\ request[r].pc = "credentialQuery"
    /\ credentialResult[r].settled
    /\ ~credentialResult[r].ok \/ thrown[r] # NoError
    /\ request' = [request EXCEPT ![r] = Send(@, Message(500, InternalError))]
    /\ UNCHANGED << secret, accountResult, credentialResult, thrown, seen,
                    Account, Account_Credential, account_id_seq >>

Next ==
    \E r \in Requests :
        \/ Receive(r)
        \/ AccountQuery(r)
        \/ AccountInsertThen(r)
        \/ AccountInsertCatch(r)
        \/ CredentialQuery(r)
        \/ CredentialInsertThen(r)
        \/ CredentialInsertCatch(r)

Spec == Init /\ [][Next]_vars

(***************************************************************************)
(* What the claims speak of.                                               *)
(***************************************************************************)
Received(r) == request[r].pc # "idle"
Done(r) == request[r].pc = "done"
Stages(r) == Range(request[r].ran)

\* the stages as section 4.3 numbers them
StageOrder == << "emailMiddlewareCheck", "requiredFields", "phone", "password", "role",
                 "accountInsert", "credentialInsert", "tokenIssue" >>

\* what each validation stage accepts, for every request body of the model
Accepts ==
    [b \in Bodies \cup { NoBody } |->
        [email |-> IF b.email = undefined THEN FALSE ELSE isValidEmail(b.email),
         fields |-> /\ isStringProvided(b.firstname)
                    /\ isStringProvided(b.lastname)
                    /\ isStringProvided(b.username),
         phone |-> isValidPhone(b.phone),
         password |-> IF b.password = undefined THEN FALSE ELSE isValidPassword(b.password),
         role |-> isValidRole(b.role)]]

EmailOk(b) == Accepts[b].email
FieldsOk(b) == Accepts[b].fields
PhoneOk(b) == Accepts[b].phone
PasswordOk(b) == Accepts[b].password
RoleOk(b) == Accepts[b].role

\* for every request body: whether the five stages accept it, the number in
\* StageOrder of the earliest stage that does not (6 when all do) and the
\* reason code of that stage
Verdict ==
    [b \in Bodies \cup { NoBody } |->
        LET a == Accepts[b]
        IN  [passes |-> a.email /\ a.fields /\ a.phone /\ a.password /\ a.role,
             failsAt |-> IF ~a.email THEN 1
                         ELSE IF ~a.fields THEN 2
                         ELSE IF ~a.phone THEN 3
                         ELSE IF ~a.password THEN 4
                         ELSE IF ~a.role THEN 5
                         ELSE 6,
             rejection |-> IF ~a.email THEN InvalidEmail
                           ELSE IF ~a.fields THEN MissingFields
                           ELSE IF ~a.phone THEN InvalidPhone
                           ELSE IF ~a.password THEN InvalidPassword
                           ELSE InvalidRole]]

PassesValidation(b) == Verdict[b].passes

\* the reason code of the earliest stage that does not accept the request
EarliestRejection(b) == Verdict[b].rejection

IsSuccess(response) == response.status = 201
Succeeded(r) == Done(r) /\ \E i \in DOMAIN request[r].sent : IsSuccess(request[r].sent[i])

AccountOk(r) == accountResult[r].settled /\ accountResult[r].ok
AccountFailed(r) == accountResult[r].settled /\ ~accountResult[r].ok
CredentialOk(r) == credentialResult[r].settled /\ credentialResult[r].ok
CredentialFailed(r) == credentialResult[r].settled /\ ~credentialResult[r].ok

AccountsWithId(a) == { i \in DOMAIN Account : Account[i].account_id = a }
AccountsNamed(u) == { i \in DOMAIN Account : Account[i].username = u }
CredentialsOf(a) == { i \in DOMAIN Account_Credential : Account_Credential[i].account_id = a }

(***************************************************************************)
(* C1.  The rejection of a request that fails validation is the one of the *)
(* earliest failing stage in the order EmailCheck, RequiredFieldsCheck,    *)
(* PhoneCheck, PasswordCheck, RoleCheck; a request that fails EmailCheck   *)
(* and PasswordCheck is rejected with InvalidEmail.                        *)
(***************************************************************************)
C1_EarliestFailingStageRejects ==
    \A r \in Requests :
        Done(r) /\ ~PassesValidation(request[r].body)
            => request[r].sent = << Message(400, EarliestRejection(request[r].body)) >>

\* the same, for the requests in which no field that a validator dereferences
\* is absent
C1_EarliestFailingStageRejectsPresent ==
    \A r \in Requests :
        /\ Done(r)
        /\ ~PassesValidation(request[r].body)
        /\ request[r].body.email # undefined
        /\ EmailOk(request[r].body) /\ FieldsOk(request[r].body) /\ PhoneOk(request[r].body)
              => request[r].body.password # undefined
        => request[r].sent = << Message(400, EarliestRejection(request[r].body)) >>

C1_Witness ==
    \E r \in Requests :
        /\ Done(r)
        /\ ~EmailOk(request[r].body) /\ ~PasswordOk(request[r].body)
        /\ request[r].sent = << Message(400, InvalidEmail) >>

(***************************************************************************)
(* C2.  Once an Account with username u is persisted, a later registration *)
(* that passes validation and uses u ends with UsernameTaken, and the      *)
(* number of Account rows with username u stays one.                       *)
(***************************************************************************)
\* the Account INSERT of r ran when a row with its username was stored
MetUsername(r) ==
    /\ Done(r)
    /\ PassesValidation(request[r].body)
    /\ seen[r].username

C2_SecondRegistrationUsernameTaken ==
    /\ \A r \in Requests :
          MetUsername(r) => request[r].sent = << Message(400, UsernameTaken) >>
    /\ \A i \in DOMAIN Account : Cardinality(AccountsNamed(Account[i].username)) = 1

\* C2 as amended: the registration ends with UsernameTaken when the storage
\* reports the username constraint, with EmailTaken when its email is stored
\* too and the storage reports that constraint, with InternalError when the
\* INSERT fails otherwise; it never succeeds and the rows with username u
\* stay one.
C2_SecondRegistrationNeverSucceeds ==
    /\ \A r \in Requests :
          MetUsername(r) =>
              /\ AccountFailed(r)
              /\ ~Succeeded(r)
              /\ accountResult[r].constraint = "account_username_key"
                    => request[r].sent = << Message(400, UsernameTaken) >>
              /\ accountResult[r].constraint = "account_email_key"
                    => seen[r].email /\ request[r].sent = << Message(400, EmailTaken) >>
              /\ accountResult[r].constraint = NoConstraint
                    => request[r].sent = << Message(500, InternalError) >>
    /\ \A i \in DOMAIN Account : Cardinality(AccountsNamed(Account[i].username)) = 1

C2_Witness ==
    \E r \in Requests :
        /\ MetUsername(r)
        /\ request[r].sent = << Message(400, UsernameTaken) >>
        /\ Cardinality(AccountsNamed(request[r].body.username)) = 1

(***************************************************************************)
(* C3.  A request that passes the five validators, whose username and      *)
(* email are not stored, and that meets no storage or signing failure ends *)
(* with 201, a non-empty token and the accountId its Account INSERT        *)
(* assigned.                                                               *)
(***************************************************************************)
\* r is answered after validation, both INSERTs and the signing went well
WentWell(r) ==
    /\ Done(r)
    /\ PassesValidation(request[r].body)
    /\ ~seen[r].username /\ ~seen[r].email
    /\ AccountOk(r)
    /\ CredentialOk(r)
    /\ ~jwtSignThrows(secret)

C3_ValidRequestSucceeds ==
    \A r \in Requests :
        WentWell(r) =>
            /\ Len(request[r].sent) = 1
            /\ request[r].sent[1].status = 201
            /\ Len(request[r].sent[1].accessToken) > 0
            /\ request[r].sent[1].id = accountResult[r].account_id
            /\ \E i \in DOMAIN Account :
                  /\ Account[i].account_id = request[r].sent[1].id
                  /\ Account[i].username = request[r].body.username
                  /\ Account[i].email = request[r].body.email

C3_Witness ==
    \E r \in Requests :
        /\ WentWell(r)
        /\ request[r].sent[1].status = 201
        /\ request[r].sent[1].id = accountResult[r].account_id

(***************************************************************************)
(* C4.  When a registration has answered success with accountId a, storage *)
(* holds exactly one Account row with id a and exactly one Credential row  *)
(* that references a: success is not answered before both rows exist.      *)
(***************************************************************************)
C4_SuccessMeansBothRows ==
    \A r \in Requests :
        \A i \in DOMAIN request[r].sent :
            IsSuccess(request[r].sent[i]) =>
                /\ Cardinality(AccountsWithId(request[r].sent[i].id)) = 1
                /\ Cardinality(CredentialsOf(request[r].sent[i].id)) = 1

C4_Witness ==
    \E r \in Requests :
        /\ Succeeded(r)
        /\ Cardinality(AccountsWithId(request[r].sent[1].id)) = 1
        /\ Cardinality(CredentialsOf(request[r].sent[1].id)) = 1

(***************************************************************************)
(* C5.  Every Credential row references the accountId of an Account row    *)
(* that exists, and no Account has more than one Credential.               *)
(***************************************************************************)
C5_CredentialHasItsAccount ==
    \A i \in DOMAIN Account_Credential :
        /\ AccountsWithId(Account_Credential[i].account_id) # { }
        /\ Cardinality(CredentialsOf(Account_Credential[i].account_id)) = 1

C5_Witness ==
    /\ Len(Account_Credential) = 2
    /\ \A i \in DOMAIN Account_Credential :
          AccountsWithId(Account_Credential[i].account_id) # { }

(***************************************************************************)
(* C6.  If the Credential INSERT fails after the Account INSERT succeeded, *)
(* the request ends with InternalError (500), no token is issued, and the  *)
(* Account row of the request stays, without a Credential.                 *)
(***************************************************************************)
C6_CredentialFailureLeavesAccount ==
    \A r \in Requests :
        AccountOk(r) /\ CredentialFailed(r) =>
            /\ Done(r) => request[r].sent = << Message(500, InternalError) >>
            /\ "tokenIssue" \notin Stages(r)
            /\ ~Succeeded(r)
            /\ Cardinality(AccountsWithId(accountResult[r].account_id)) = 1
            /\ CredentialsOf(accountResult[r].account_id) = { }

C6_Witness ==
    \E r \in Requests :
        /\ AccountOk(r) /\ CredentialFailed(r) /\ Done(r)
        /\ request[r].sent = << Message(500, InternalError) >>
        /\ \E p \in Requests : p # r /\ Done(p) /\ AccountOk(p)

(***************************************************************************)
(* C7.  When the Account INSERT fails, the result is UsernameTaken for the *)
(* username constraint, EmailTaken for the email constraint, InternalError *)
(* for any other failure; no Account row is added, the Credential INSERT   *)
(* is not attempted and no token is issued.                                *)
(***************************************************************************)
C7_AccountFailureIsMapped ==
    /\ \A r \in Requests :
          AccountFailed(r) =>
              /\ Done(r) =>
                    request[r].sent =
                       << CASE accountResult[r].constraint = "account_username_key"
                                  -> Message(400, UsernameTaken)
                            [] accountResult[r].constraint = "account_email_key"
                                  -> Message(400, EmailTaken)
                            [] OTHER -> Message(500, InternalError) >>
              /\ "credentialInsert" \notin Stages(r)
              /\ "tokenIssue" \notin Stages(r)
              /\ ~credentialResult[r].settled
              /\ request[r].salt = << >> /\ request[r].saltedHash = << >>
              /\ ~Succeeded(r)
    /\ Len(Account) = Cardinality({ r \in Requests : AccountOk(r) })

C7_Witness ==
    \E r \in Requests :
        /\ Done(r) /\ AccountFailed(r) /\ accountResult[r].constraint = "account_email_key"
        /\ request[r].sent = << Message(400, EmailTaken) >>
        /\ Len(Account) = 1

(***************************************************************************)
(* C8.  A request that a validation stage rejects leaves storage alone:    *)
(* no Account INSERT and no Credential INSERT is attempted, no salt or     *)
(* hash is derived and no token is signed for it.                          *)
(***************************************************************************)
C8_RejectedRequestTouchesNothing ==
    /\ \A r \in Requests :
          Received(r) /\ ~PassesValidation(request[r].body) =>
              /\ Done(r)
              /\ Stages(r) \cap { "accountInsert", "credentialInsert", "tokenIssue" } = { }
              /\ ~accountResult[r].settled /\ ~credentialResult[r].settled
              /\ request[r].salt = << >> /\ request[r].saltedHash = << >>
              /\ request[r].id = 0
              /\ ~Succeeded(r)
    /\ \A i \in DOMAIN Account :
          \E r \in Requests : AccountOk(r) /\ accountResult[r].account_id = Account[i].account_id
    /\ \A i \in DOMAIN Account_Credential :
          \E r \in Requests : CredentialOk(r) /\ request[r].id = Account_Credential[i].account_id

C8_Witness ==
    \E r \in Requests :
        /\ Done(r)
        /\ request[r].sent = << Message(400, InvalidRole) >>
        /\ Account = << >> /\ Account_Credential = << >>

(***************************************************************************)
(* C9.  Within one request every stage runs at most once and only after    *)
(* the earlier stages advanced: AccountInsert after the five validators    *)
(* passed, CredentialInsert after AccountInsert succeeded, TokenIssue      *)
(* after CredentialInsert succeeded; after a rejection no later stage      *)
(* runs, and the request has exactly one result.                           *)
(***************************************************************************)
IsPrefix(s, t) == Len(s) <= Len(t) /\ s = SubSeq(t, 1, Len(s))

\* the number, in StageOrder, of the stage at which an answered request ended
LastStage(r) ==
    LET v == Verdict[request[r].body]
    IN  IF ~v.passes THEN v.failsAt
        ELSE IF AccountFailed(r) THEN 6
        ELSE IF CredentialFailed(r) THEN 7
        ELSE 8

C9_StagesRunOnceInOrder ==
    \A r \in Requests :
        /\ IsPrefix(request[r].ran, StageOrder)
        /\ Len(request[r].ran) >= 6 => PassesValidation(request[r].body)
        /\ "credentialInsert" \in Stages(r) => AccountOk(r)
        /\ "tokenIssue" \in Stages(r) => CredentialOk(r)
        /\ Len(request[r].sent) <= 1
        /\ Done(r) <=> Len(request[r].sent) = 1
        /\ Done(r) => request[r].ran = SubSeq(StageOrder, 1, LastStage(r))

C9_Witness ==
    \E r, p \in Requests :
        /\ Done(r) /\ request[r].ran = StageOrder /\ Len(request[r].sent) = 1
        /\ Done(p) /\ Len(request[p].ran) = 4 /\ Len(request[p].sent) = 1

(***************************************************************************)
(* C10.  Two registrations with different usernames and different emails   *)
(* that run concurrently each get the result they would get alone, under   *)
(* every interleaving, and each Credential row is bound to the accountId   *)
(* of its own request.                                                     *)
(***************************************************************************)
\* no other request that has arrived shares the username or the email of r
Unrelated(r) ==
    /\ Received(r)
    /\ \A p \in Requests \ { r } :
          Received(p) => /\ request[p].body.username # request[r].body.username
                         /\ request[p].body.email # request[r].body.email

\* the answer of the validators to a request they do not pass
ValidationAnswer(b) ==
    IF b.email = undefined THEN Uncaught(TypeError)
    ELSE IF EmailOk(b) /\ FieldsOk(b) /\ PhoneOk(b) /\ b.password = undefined
    THEN Uncaught(TypeError)
    ELSE Message(400, EarliestRejection(b))

\* the result of r on a server that serves no other request, given how its
\* own INSERTs end
AloneResult(r) ==
    IF ~PassesValidation(request[r].body) THEN ValidationAnswer(request[r].body)
    ELSE IF ~AccountOk(r) \/ ~CredentialOk(r) \/ jwtSignThrows(secret)
    THEN Message(500, InternalError)
    ELSE Created(jwtSign([role |-> request[r].body.role, id |-> accountResult[r].account_id],
                         secret),
                 accountResult[r].account_id)

C10_UnrelatedRequestsDoNotInterfere ==
    \A r \in Requests :
        Unrelated(r) =>
            /\ ~seen[r].username /\ ~seen[r].email
            /\ AccountFailed(r) => accountResult[r].constraint = NoConstraint
            /\ Done(r) => request[r].sent = << AloneResult(r) >>
            /\ AccountOk(r) /\ request[r].pc \in { "credentialQuery", "done" }
                  => request[r].id = accountResult[r].account_id
            /\ CredentialOk(r) =>
                  \E i \in DOMAIN Account_Credential :
                      /\ CredentialsOf(accountResult[r].account_id) = { i }
                      /\ Account_Credential[i] =
                            [account_id |-> accountResult[r].account_id,
                             salted_hash |-> generateHash(request[r].body.password, request[r].salt),
                             salt |-> request[r].salt]
            /\ \A p \in Requests \ { r } :
                  AccountOk(r) /\ AccountOk(p)
                      => accountResult[p].account_id # accountResult[r].account_id

\* both succeed, and the request that arrived first got the later accountId
C10_Witness ==
    /\ Unrelated(1) /\ Unrelated(2)
    /\ Succeeded(1) /\ Succeeded(2)
    /\ request[1].sent[1].id = 2 /\ request[2].sent[1].id = 1
    /\ request[1].salt # request[2].salt

(***************************************************************************)
(* C11.  Of two valid registrations with the same username that run        *)
(* concurrently, at most one ends in success and the other ends with       *)
(* UsernameTaken; storage never holds two Account rows with that username. *)
(***************************************************************************)
\* r and p are two answered registrations that pass validation and carry
\* the same username
Rivals(r, p) ==
    /\ r # p
    /\ Done(r) /\ Done(p)
    /\ request[r].body.username = request[p].body.username
    /\ PassesValidation(request[r].body) /\ PassesValidation(request[p].body)

Claims(accessToken) == accessToken[2]

C12_TokenBindsOwnAccountAndRole ==
    \A r \in Requests : \A i \in DOMAIN request[r].sent :
        IsSuccess(request[r].sent[i]) =>
            /\ AccountOk(r)
            /\ Claims(request[r].sent[i].accessToken).id = accountResult[r].account_id
            /\ Claims(request[r].sent[i].accessToken).role = request[r].body.role
            /\ request[r].sent[i].id = Claims(request[r].sent[i].accessToken).id

\* two registrations with different roles both succeeded, each with its own id
C12_Witness ==
    /\ Succeeded(1) /\ Succeeded(2)
    /\ request[1].body.role # request[2].body.role
    /\ accountResult[1].account_id # accountResult[2].account_id

(***************************************************************************)
(* C13.  Every validator stage is total on every request, requests with    *)
(* absent email, password, phone or role included: a validator stage       *)
(* either lets the request advance or answers with its own typed 400       *)
(* result; none of them raises an exception.                               *)
(***************************************************************************)
\* the typed rejection of each validator stage
StageRejection(stage) ==
    CASE stage = "emailMiddlewareCheck" -> InvalidEmail
      [] stage = "requiredFields" -> MissingFields
      [] stage = "phone" -> InvalidPhone
      [] stage = "password" -> InvalidPassword
      [] stage = "role" -> InvalidRole

\* r was answered by one of the five validator stages
EndedInValidator(r) ==
    Done(r) /\ Len(request[r].ran) \in 1..5

C13_ValidatorStagesAreTotal ==
    \A r \in Requests :
        EndedInValidator(r) =>
            /\ thrown[r] = NoError
            /\ request[r].sent =
                  << Message(400, StageRejection(request[r].ran[Len(request[r].ran)])) >>

\* absent phone and absent role are answered with their typed results
C13_Witness ==
    /\ EndedInValidator(1) /\ EndedInValidator(2)
    /\ request[1].body.phone = undefined
    /\ request[1].sent = << Message(400, InvalidPhone) >>
    /\ request[2].body.role = undefined
    /\ request[2].sent = << Message(400, InvalidRole) >>

(***************************************************************************)
(* C14.  Absence of the signing secret is never observed as a per-request  *)
(* error: while the secret is absent no request reaches the Account        *)
(* insert, the Credential insert or the token issue, so a missing secret   *)
(* produces neither an InternalError result nor persisted rows.            *)
(***************************************************************************)
SecretAbsent == secret = undefined

C14_AbsentSecretIsNotPerRequest ==
    SecretAbsent =>
        /\ \A r \in Requests :
              /\ Stages(r) \cap { "accountInsert", "credentialInsert", "tokenIssue" } = {}
              /\ thrown[r] = NoError
              /\ \A i \in DOMAIN request[r].sent :
                    request[r].sent[i] # Message(500, InternalError)
        /\ Len(Account) = 0
        /\ Len(Account_Credential) = 0

\* with no secret a valid request stored both of its rows, reached jwt.sign
\* and was answered with InternalError
C14_Witness ==
    \E r \in Requests :
        /\ SecretAbsent
        /\ thrown[r] # NoError
        /\ request[r].sent = << Message(500, InternalError) >>
        /\ AccountsWithId(accountResult[r].account_id) # {}
        /\ CredentialsOf(accountResult[r].account_id) # {}

(***************************************************************************)
(* C15.  For every password p over a bounded alphabet of letters, digits   *)
(* and special characters, isValidPassword(p) is true if and only if       *)
(* length(p) >= 15, p contains at least one special character, p contains  *)
(* at least one digit, and the values of all digit occurrences in p sum to *)
(* exactly 20.                                                             *)
(***************************************************************************)
RECURSIVE DigitSum(_)
DigitSum(p) ==
    IF p = << >> THEN 0
    ELSE (IF Head(p) \in Range(DigitChars) THEN DigitValue(Head(p)) ELSE 0) + DigitSum(Tail(p))

PasswordRule(p) ==
    /\ Len(p) >= 15
    /\ \E i \in DOMAIN p : p[i] \in { "!", "@", "#", "$", "%", "^", "&", "*", "(", ")",
                                      "_", "+", "-", "=", "[", "]", "{", "}", ";", "'",
                                      ":", "\"", "\\", "|", ",", ".", "<", ">", "/", "?" }
    /\ \E i \in DOMAIN p : p[i] \in { "0", "1", "2", "3", "4", "5", "6", "7", "8", "9" }
    /\ DigitSum(p) = 20

C15_PasswordRule ==
    Received(1) =>
        LET p == request[1].body.password
        IN  /\ isValidPassword(p) <=> PasswordRule(p)
            /\ PasswordRule(p) <=> request[1].pc = "accountQuery"
            /\ ~PasswordRule(p) <=> request[1].sent = << Message(400, InvalidPassword) >>

\* a password of the required length with digits 9, 9, 0 and 2 and a special
\* character went through, and so did one longer than required
C15_Witness ==
    /\ request[1].pc = "accountQuery"
    /\ PasswordRule(request[1].body.password)
    /\ Len(request[1].body.password) > 15

(***************************************************************************)
(* C16.  isValidRole(r) is true if and only if r parses as an integer in   *)
(* the closed range [1,5]; a role that is not an integer (a number with a  *)
(* fractional part, a digit followed by other characters) or that lies     *)
(* outside 1..5 is rejected with InvalidRole, so every persisted Account   *)
(* has a role that is an integer from 1 to 5.                              *)
(***************************************************************************)
\* r is the decimal text of an integer from 1 to 5
RoleRule(r) ==
    /\ r # undefined
    /\ Len(r) >= 1
    /\ \A i \in DOMAIN r : r[i] \in { "0", "1", "2", "3", "4", "5", "6", "7", "8", "9" }
    /\ DigitsValue(r, 1, Len(r) + 1) \in 1..5

\* the role middleware has run on r
RoleStageRan(r) == Len(request[r].ran) >= 5

C16_RoleRule ==
    /\ \A r \in Requests :
          RoleStageRan(r) =>
              /\ Len(request[r].ran) >= 6 <=> RoleRule(request[r].body.role)
              /\ ~RoleRule(request[r].body.role)
                    => request[r].sent = << Message(400, InvalidRole) >>
    /\ \A i \in DOMAIN Account : Account[i].account_role \in 1..5

\* the role "3.5" passed the role middleware and the request ended at the
\* Account INSERT, with no row stored
C16_Witness ==
    \E r \in Requests :
        /\ request[r].body.role = Str_role3_5
        /\ "accountInsert" \in Stages(r)
        /\ request[r].sent = << Message(500, InternalError) >>
        /\ Len(Account) = 0

(***************************************************************************)
(* C17.  Every result of a request is exactly one of: success with status  *)
(* 201 and {token, accountId}; a rejection with status 400 for             *)
(* MissingFields, InvalidPassword, InvalidPhone, InvalidEmail,             *)
(* InvalidRole, UsernameTaken or EmailTaken; or status 500 InternalError   *)
(* with a fixed opaque message that carries no detail of the error.        *)
(***************************************************************************)
Rejections ==
    { MissingFields, InvalidPassword, InvalidPhone, InvalidEmail, InvalidRole,
      UsernameTaken, EmailTaken }

IsResult(response) ==
    \/ /\ DOMAIN response = { "status", "accessToken", "id" }
       /\ response.status = 201
    \/ \E m \in Rejections : response = Message(400, m)
    \/ response = Message(500, InternalError)

C17_EveryResultIsTyped ==
    \A r \in Requests : \A i \in DOMAIN request[r].sent : IsResult(request[r].sent[i])

\* a success beside an InternalError of the storage
C17_Witness ==
    \E r, p \in Requests :
        /\ Succeeded(r)
        /\ Done(p) /\ AccountFailed(p)
        /\ request[p].sent = << Message(500, InternalError) >>

(***************************************************************************)
(* C18.  Every persisted Credential row (accountId, salt, saltedHash)      *)
(* satisfies saltedHash = generateHash(p, salt), where p is the password   *)
(* submitted in the request that created that accountId and salt is the    *)
(* salt generated in that same request; hence verify(p, salt, saltedHash)  *)
(* holds for every stored Credential.                                      *)
(***************************************************************************)
C18_CredentialHashesOwnPassword ==
    \A i \in DOMAIN Account_Credential :
        \E r \in Requests :
            /\ AccountOk(r)
            /\ accountResult[r].account_id = Account_Credential[i].account_id
            /\ Account_Credential[i].salt = request[r].salt
            /\ Account_Credential[i].salt \in Salts
            /\ Account_Credential[i].salted_hash =
                  generateHash(request[r].body.password, Account_Credential[i].salt)
            /\ verify(request[r].body.password, Account_Credential[i].salt,
                      Account_Credential[i].salted_hash)

\* two Credentials of requests with different passwords and the same salt
C18_Witness ==
    /\ Len(Account_Credential) = 2
    /\ request[1].body.password # request[2].body.password
    /\ Account_Credential[1].salt = Account_Credential[2].salt
    /\ Account_Credential[1].salted_hash # Account_Credential[2].salted_hash

(***************************************************************************)
(* C19.  If signing the token fails after the Credential insert succeeded, *)
(* the request ends with the opaque InternalError (500) and never with     *)
(* success, while the Account row and the Credential row that the request  *)
(* created remain persisted.                                               *)
(***************************************************************************)
SigningFailed(r) == thrown[r] # NoError

C19_SigningFailureIsInternalError ==
    \A r \in Requests :
        SigningFailed(r) =>
            /\ CredentialOk(r)
            /\ ~\E i \in DOMAIN request[r].sent : IsSuccess(request[r].sent[i])
            /\ Done(r) => request[r].sent = << Message(500, InternalError) >>
            /\ Cardinality(AccountsWithId(accountResult[r].account_id)) = 1
            /\ Cardinality(CredentialsOf(accountResult[r].account_id)) = 1

\* signing failed for two requests; each was answered 500 and the four rows
\* are stored
C19_Witness ==
    /\ \A r \in { 1, 2 } : SigningFailed(r) /\ request[r].sent = << Message(500, InternalError) >>
    /\ Len(Account) >= 2
    /\ Len(Account_Credential) >= 2

(***************************************************************************)
(* C20.  After a registration for username u has ended with InternalError  *)
(* at the Credential insert, every later valid registration with the same  *)
(* username u ends with UsernameTaken, and the orphaned Account for u      *)
(* never acquires a Credential through any sequence of later               *)
(* registrations.                                                          *)
(***************************************************************************)
\* the Account of r is stored and r ended at its failed Credential INSERT
OrphanEnded(r) == Done(r) /\ AccountOk(r) /\ CredentialFailed(r)

\* r is answered, passes validation, and arrived after a registration with
\* its username had ended at a failed Credential INSERT
CameAfterOrphan(r) ==
    /\ Done(r)
    /\ seen[r].afterOrphan
    /\ PassesValidation(request[r].body)

OrphansStayWithoutCredential ==
    \A r \in Requests :
        OrphanEnded(r) =>
            /\ CredentialsOf(accountResult[r].account_id) = { }
            /\ Cardinality(AccountsNamed(request[r].body.username)) = 1

C20_AfterOrphanUsernameTaken ==
    /\ \A r \in Requests :
          CameAfterOrphan(r) => request[r].sent = << Message(400, UsernameTaken) >>
    /\ OrphansStayWithoutCredential

\* C20 as amended: the later registration never succeeds and stores nothing;
\* it ends with UsernameTaken when the storage reports the username
\* constraint, with EmailTaken when it carries the email of the orphan too
\* and the storage reports that constraint, with InternalError when its
\* INSERT fails otherwise.
C20_AfterOrphanNeverRegisters ==
    /\ \A r \in Requests :
          CameAfterOrphan(r) =>
              /\ seen[r].username
              /\ AccountFailed(r)
              /\ ~Succeeded(r)
              /\ "credentialInsert" \notin Stages(r)
              /\ accountResult[r].constraint = "account_username_key"
                    => request[r].sent = << Message(400, UsernameTaken) >>
              /\ accountResult[r].constraint = "account_email_key"
                    => seen[r].email /\ request[r].sent = << Message(400, EmailTaken) >>
              /\ accountResult[r].constraint = NoConstraint
                    => request[r].sent = << Message(500, InternalError) >>
    /\ OrphansStayWithoutCredential

\* the first registration ended at its failed Credential INSERT, the second
\* arrived after that with the same username and got UsernameTaken
C20_Witness ==
    /\ OrphanEnded(1)
    /\ CameAfterOrphan(2)
    /\ request[2].body.username = request[1].body.username
    /\ request[2].sent = << Message(400, UsernameTaken) >>
    /\ CredentialsOf(accountResult[1].account_id) = { }

====
